---- MODULE Spec2Model ----
(***************************************************************************)
(* A model of src/lambda_function.py: the blog-generation Lambda handler.  *)
(*                                                                         *)
(* Python strings are TLA+ strings; a character is a string of length 1    *)
(* (SubSeq(s, i, i)).  The two remote services (Bedrock invoke_model and   *)
(* S3 put_object) and the clock are the environment: each action that      *)
(* calls one takes the service's answer as a parameter.                    *)
(*                                                                         *)
(* Library calls are modelled by their contract:                           *)
(*   - json.loads and b64decode act on a body string that is described by  *)
(*     what each of the two decoders makes of it (see BodyStr);            *)
(*   - json.dumps, str.strip, str.isalnum, strftime and slicing are        *)
(*     computed character by character (ASCII).                            *)
(***************************************************************************)
EXTENDS Integers, Sequences, FiniteSets, TLC

(***************************************************************************)
(* Strings                                                                 *)
(***************************************************************************)
Char(s, i) == SubSeq(s, i, i)

Whitespace == {" ", "\t", "\n", "\r", "\f"}

Letters == "abcdefghijklmnopqrstuvwxyzABCDEFGHIJKLMNOPQRSTUVWXYZ"

Digits == "0123456789"

Alnum == {Char(Letters, i) : i \in 1..Len(Letters)} \cup {Char(Digits, i) : i \in 1..Len(Digits)}

\* str.isalnum() of one character
IsAlnum(c) == c \in Alnum

RECURSIVE LStrip(_)
LStrip(s) == IF Len(s) > 0 /\ Char(s, 1) \in Whitespace THEN LStrip(SubSeq(s, 2, Len(s))) ELSE s

RECURSIVE RStrip(_)
RStrip(s) == IF Len(s) > 0 /\ Char(s, Len(s)) \in Whitespace THEN RStrip(SubSeq(s, 1, Len(s) - 1)) ELSE s

\* str.strip()
Strip(s) == RStrip(LStrip(s))

\* s[:n]
Prefix(s, n) == SubSeq(s, 1, IF n < Len(s) THEN n ELSE Len(s))

\* s * n (by halves: the depth of the recursion is logarithmic)
RECURSIVE Repeat(_, _)
Repeat(s, n) ==
    IF n <= 0 THEN ""
    ELSE IF n = 1 THEN s
    ELSE Repeat(s, n \div 2) \o Repeat(s, n - (n \div 2))

\* str(n) for n >= 0
RECURSIVE IntToStr(_)
IntToStr(n) == IF n < 10 THEN Char(Digits, n + 1) ELSE IntToStr(n \div 10) \o Char(Digits, (n % 10) + 1)

(***************************************************************************)
(* Config (module level)                                                   *)
(***************************************************************************)
S3_BUCKET == "bedrock-demo-blogs"

(***************************************************************************)
(* json.dumps of a flat dict.  A dict is a sequence of <<key, value>>      *)
(* pairs in insertion order; a value is [s |-> string] or [n |-> int].     *)
(***************************************************************************)
JsonEscapeChar(c) ==
    CASE c = "\"" -> "\\\""
      [] c = "\\" -> "\\\\"
      [] c = "\n" -> "\\n"
      [] c = "\r" -> "\\r"
      [] c = "\t" -> "\\t"
      [] c = "\f" -> "\\f"
      [] OTHER -> c

\* every character escaped, in order (by halves)
RECURSIVE JsonEscape(_)
JsonEscape(s) ==
    IF Len(s) = 0 THEN ""
    ELSE IF Len(s) = 1 THEN JsonEscapeChar(s)
    ELSE JsonEscape(SubSeq(s, 1, Len(s) \div 2)) \o JsonEscape(SubSeq(s, (Len(s) \div 2) + 1, Len(s)))

JsonQuote(s) == "\"" \o JsonEscape(s) \o "\""

JsonValue(v) == IF DOMAIN v = {"s"} THEN JsonQuote(v.s) ELSE IntToStr(v.n)

RECURSIVE JsonItems(_)
JsonItems(d) ==
    IF Len(d) = 0 THEN ""
    ELSE JsonQuote(d[1][1]) \o ": " \o JsonValue(d[1][2])
         \o (IF Len(d) > 1 THEN ", " ELSE "") \o JsonItems(Tail(d))

JsonDumps(d) == "{" \o JsonItems(d) \o "}"

(***************************************************************************)
(* _ok and _error                                                          *)
(***************************************************************************)
ContentTypeHeader == [name |-> "Content-Type", value |-> "application/json"]

Ok(body, status) == [statusCode |-> status, headers |-> {ContentTypeHeader}, body |-> JsonDumps(body)]

ErrorBody(message) == << <<"error", [s |-> message]>> >>

Error(message, status) == Ok(ErrorBody(message), status)

(***************************************************************************)
(* datetime.utcnow().strftime("%Y-%m-%dT%H-%M-%SZ")                        *)
(* A clock reading is [sec |-> seconds since the epoch, usec |-> 0..999999]*)
(***************************************************************************)
Pad2(n) == Char(Digits, (n \div 10) + 1) \o Char(Digits, (n % 10) + 1)

Pad4(n) == Pad2(n \div 100) \o Pad2(n % 100)

\* proleptic Gregorian date of day number z (days since 1970-01-01)
CivilFromDays(z) ==
    LET zz == z + 719468
        era == zz \div 146097
        doe == zz - era * 146097
        yoe == (doe - doe \div 1460 + doe \div 36524 - doe \div 146096) \div 365
        doy == doe - (365 * yoe + yoe \div 4 - yoe \div 100)
        mp == (5 * doy + 2) \div 153
        d == doy - (153 * mp + 2) \div 5 + 1
        m == IF mp < 10 THEN mp + 3 ELSE mp - 9
        y == yoe + era * 400 + (IF m <= 2 THEN 1 ELSE 0)
    IN [year |-> y, month |-> m, day |-> d]

\* mutant: the seconds are left out of the timestamp
Strftime_MinuteResolution(now) ==
    LET date == CivilFromDays(now.sec \div 86400)
        sod == now.sec % 86400
    IN Pad4(date.year) \o "-" \o Pad2(date.month) \o "-" \o Pad2(date.day) \o "T"
       \o Pad2(sod \div 3600) \o "-" \o Pad2((sod % 3600) \div 60) \o "-" \o "00" \o "Z"

Strftime(now) ==
    LET date == CivilFromDays(now.sec \div 86400)
        sod == now.sec % 86400
    IN Pad4(date.year) \o "-" \o Pad2(date.month) \o "-" \o Pad2(date.day) \o "T"
       \o Pad2(sod \div 3600) \o "-" \o Pad2((sod % 3600) \div 60) \o "-" \o Pad2(sod % 60) \o "Z"

(***************************************************************************)
(* JSON values as json.loads returns them.  A scalar is [t, v] with t the  *)
(* Python type and v its text; an object (dict) is [t |-> "dict", fields]. *)
(***************************************************************************)
JNull == [t |-> "NoneType", v |-> "null"]

JStr(s) == [t |-> "str", v |-> s]

JNum(d) == [t |-> "int", v |-> d]

JList(d) == [t |-> "list", v |-> d]

JObj(f) == [t |-> "dict", fields |-> f]

EmptyDict == JObj([k \in {} |-> JNull])

\* text on which json.loads raises json.JSONDecodeError
Malformed == [t |-> "JSONDecodeError", v |-> "Expecting value: line 1 column 1 (char 0)"]

\* text on which b64decode raises binascii.Error
B64Error == [t |-> "binascii.Error", v |-> "Incorrect padding"]

\* bool(value)
Truthy(val) ==
    CASE val.t = "NoneType" -> FALSE
      [] val.t = "str" -> val.v # ""
      [] val.t = "int" -> val.v # "0"
      [] val.t = "list" -> val.v # "[]"
      [] val.t = "dict" -> DOMAIN val.fields # {}

\* a or b
Or(a, b) == IF Truthy(a) THEN a ELSE b

\* d.get(key) of a dict d
Get(d, key) == IF key \in DOMAIN d.fields THEN d.fields[key] ELSE JNull

AttributeError(val, attr) == "'" \o val.t \o "' object has no attribute '" \o attr \o "'"

(***************************************************************************)
(* _parse_event_body.  event.body is Absent (no "body" key), None, or a    *)
(* string, described by what json.loads makes of it (plain) and what       *)
(* b64decode(...).decode("utf-8", errors="replace") followed by json.loads *)
(* makes of it (b64: B64Error when b64decode raises).                      *)
(***************************************************************************)
Absent == [k |-> "absent"]

None == [k |-> "None"]

BodyStr(plain, b64) == [k |-> "str", plain |-> plain, b64 |-> b64]

Return(val) == [ret |-> val]

Raise(type, msg) == [raise |-> [type |-> type, msg |-> msg]]

Raised(r) == "raise" \in DOMAIN r

JsonLoadsOrEmpty(parsed) == IF parsed = Malformed THEN Return(EmptyDict) ELSE Return(parsed)

ParseEventBody(event) ==
    IF event.body \in {Absent, None} THEN Return(EmptyDict)
    ELSE IF event.isBase64Encoded
         THEN IF event.body.b64 = B64Error
              THEN Raise(B64Error.t, B64Error.v)
              ELSE JsonLoadsOrEmpty(event.body.b64)
         ELSE JsonLoadsOrEmpty(event.body.plain)

(***************************************************************************)
(* lambda_handler, line 95: the topic                                      *)
(***************************************************************************)
\* mutant: the value is not stripped
TopicOf_NoStrip(body) ==
    IF body.t # "dict" THEN Raise("AttributeError", AttributeError(body, "get"))
    ELSE LET val == Or(Or(Get(body, "blogstopic"), Get(body, "topic")), JStr(""))
         IN IF val.t = "str" THEN Return(val.v)
            ELSE Raise("AttributeError", AttributeError(val, "strip"))

\* mutant: 'topic' is looked up before 'blogstopic'
TopicOf_TopicFirst(body) ==
    IF body.t # "dict" THEN Raise("AttributeError", AttributeError(body, "get"))
    ELSE LET val == Or(Or(Get(body, "topic"), Get(body, "blogstopic")), JStr(""))
         IN IF val.t = "str" THEN Return(Strip(val.v))
            ELSE Raise("AttributeError", AttributeError(val, "strip"))

TopicOf(body) ==
    IF body.t # "dict" THEN Raise("AttributeError", AttributeError(body, "get"))
    ELSE LET val == Or(Or(Get(body, "blogstopic"), Get(body, "topic")), JStr(""))
         IN IF val.t = "str" THEN Return(Strip(val.v))
            ELSE Raise("AttributeError", AttributeError(val, "strip"))

MissingTopicMessage == "Missing required field 'blogstopic' in request body."

(***************************************************************************)
(* generate_blog.  reply is what invoke_model does: [raise |-> exception]  *)
(* or [data |-> what json.loads makes of the response body].               *)
(***************************************************************************)
GenerateBlog(reply) ==
    IF Raised(reply) THEN reply
    ELSE IF reply.data = Malformed THEN Raise(Malformed.t, Malformed.v)
    ELSE IF reply.data.t # "dict" THEN Raise("AttributeError", AttributeError(reply.data, "get"))
    ELSE LET text == Or(Get(reply.data, "generation"), JStr(""))
         IN IF text.t = "str" THEN Return(Strip(text.v))
            ELSE Raise("AttributeError", AttributeError(text, "strip"))

GenerationErrorMessage(e) == "Error generating blog: " \o e.msg

EmptyContentMessage == "Model returned empty content."

(***************************************************************************)
(* lambda_handler, lines 110-112: the S3 key                               *)
(***************************************************************************)
\* mutant: every character but whitespace is kept
KeepChar_NonSpace(c) == c \notin Whitespace

KeepChar(c) == IsAlnum(c) \/ c \in {"-", "_"}

\* "".join(c for c in s if c.isalnum() or c in ("-", "_")) (by halves)
RECURSIVE JoinKept(_)
JoinKept(s) ==
    IF Len(s) = 0 THEN ""
    ELSE IF Len(s) = 1 THEN (IF KeepChar(s) THEN s ELSE "")
    ELSE JoinKept(SubSeq(s, 1, Len(s) \div 2)) \o JoinKept(SubSeq(s, (Len(s) \div 2) + 1, Len(s)))

\* mutant: no fallback name
SafeTopic_NoFallback(topic) == Strip(JoinKept(topic))

SafeTopic(topic) == LET joined == Strip(JoinKept(topic)) IN IF joined # "" THEN joined ELSE "blog"

S3Key(topic, now) == "blogs/" \o SafeTopic(topic) \o "_" \o Strftime(now) \o ".txt"

(***************************************************************************)
(* save_blog_to_s3 and the success response                                *)
(***************************************************************************)
S3Object(key, content) ==
    [Bucket |-> S3_BUCKET, Key |-> key, Body |-> content, ContentType |-> "text/plain; charset=utf-8"]

PutObject(store, obj) == {o \in store : ~(o.Bucket = obj.Bucket /\ o.Key = obj.Key)} \cup {obj}

StorageErrorMessage(e) == "Failed to save to S3: " \o e.msg

PreviewLen == 200

\* mutant: the suffix is added from PreviewLen characters on
Preview_OffByOne(text) == Prefix(text, PreviewLen) \o (IF Len(text) >= PreviewLen THEN "..." ELSE "")

Preview(text) == Prefix(text, PreviewLen) \o (IF Len(text) > PreviewLen THEN "..." ELSE "")

SuccessBody(key, text) ==
    << <<"message", [s |-> "Blog generated and saved."]>>,
       <<"s3_bucket", [s |-> S3_BUCKET]>>,
       <<"s3_key", [s |-> key]>>,
       <<"length_chars", [n |-> Len(text)]>>,
       <<"preview", [s |-> Preview(text)]>> >>

(***************************************************************************)
(* Inputs: events, replies of invoke_model, clock readings, outcomes of    *)
(* put_object                                                              *)
(***************************************************************************)
CoffeeText == "A short text about coffee."

\* a text of n characters
Filler(n) == Prefix(Repeat(Digits, (n \div Len(Digits)) + 1), n)

FieldValues ==
    {JNull, JStr(""), JStr("  "), JStr("Coffee!!"), JStr(" my-2nd_blog post\n"), JStr("!!"),
     JNum("5"), JNum("0")}

FieldNames == {"blogstopic", "topic"}

Dicts == {JObj(f) : f \in UNION {[names -> FieldValues] : names \in SUBSET FieldNames}}

Docs == Dicts \cup {JList("[1]"), JNum("5"), JStr("Coffee!!"), JNull}

BodyStrings ==
    {BodyStr(plain, b64) : plain \in Docs \cup {Malformed}, b64 \in {B64Error, Malformed}}
    \cup {BodyStr(Malformed, b64) : b64 \in Docs}

Events == [body : {Absent, None} \cup BodyStrings, isBase64Encoded : BOOLEAN]

ReadTimeout == Raise("ReadTimeoutError", "Read timeout on endpoint URL")

AccessDenied == Raise("ClientError", "An error occurred (AccessDeniedException) when calling the InvokeModel operation")

GenerationValues ==
    {JNull, JStr(""), JStr(" \n\t"), JNum("5"), JStr(CoffeeText), JStr("  " \o CoffeeText \o "\n"),
     JStr(Filler(PreviewLen - 1)), JStr(Filler(PreviewLen)), JStr(Filler(PreviewLen + 1)),
     JStr(Filler(PreviewLen) \o " ")}

Replies ==
    {ReadTimeout, AccessDenied, [data |-> Malformed], [data |-> JList("[1]")], [data |-> EmptyDict]}
    \cup {[data |-> JObj([k \in {"generation"} |-> val])] : val \in GenerationValues}

NoSuchBucket == Raise("ClientError", "An error occurred (NoSuchBucket) when calling the PutObject operation")

PutOutcomes == {Return("ok"), NoSuchBucket}

\* 2026-11-03T04:58:00Z and the next second, the last second of 2026, 2028-02-29T00:00:00Z
ClockSeconds == {1793681880, 1793681881, 1798761599, 1835395200}

ClockReadings == [sec : ClockSeconds, usec : {0, 999999}]

(***************************************************************************)
(* State: each invocation's position and locals, what the two services     *)
(* answered it (model_reply, put_result), the calls it made, and the bucket*)
(***************************************************************************)
NumInvocations == 2

Invocations == 1..NumInvocations

VARIABLES pc, event, body, topic, model_reply, blog_text, now, s3_key, put_result,
          payload, response, raised, invoke_calls, put_calls, bucket

vars == <<pc, event, body, topic, model_reply, blog_text, now, s3_key, put_result,
          payload, response, raised, invoke_calls, put_calls, bucket>>

Unset == [k |-> "unset"]

NoResponse == [statusCode |-> 0, headers |-> {}, body |-> ""]

NoException == [type |-> "", msg |-> ""]

Init ==
    /\ pc = [i \in Invocations |-> "START"]
    /\ event = [i \in Invocations |-> Unset]
    /\ body = [i \in Invocations |-> Unset]
    /\ topic = [i \in Invocations |-> ""]
    /\ model_reply = [i \in Invocations |-> Unset]
    /\ blog_text = [i \in Invocations |-> ""]
    /\ now = [i \in Invocations |-> [sec |-> 0, usec |-> 0]]
    /\ s3_key = [i \in Invocations |-> ""]
    /\ put_result = [i \in Invocations |-> Unset]
    /\ payload = [i \in Invocations |-> <<>>]
    /\ response = [i \in Invocations |-> NoResponse]
    /\ raised = [i \in Invocations |-> NoException]
    /\ invoke_calls = [i \in Invocations |-> 0]
    /\ put_calls = [i \in Invocations |-> 0]
    /\ bucket = {}

\* return _ok(d, status)
Respond(i, d, status) ==
    /\ payload' = [payload EXCEPT ![i] = d]
    /\ response' = [response EXCEPT ![i] = Ok(d, status)]
    /\ pc' = [pc EXCEPT ![i] = IF status = 200 THEN "RESPOND_OK" ELSE "RESPOND_ERROR"]
    /\ UNCHANGED raised

\* return _error(message, status)
RespondError(i, message, status) ==
    /\ payload' = [payload EXCEPT ![i] = ErrorBody(message)]
    /\ response' = [response EXCEPT ![i] = Error(message, status)]
    /\ pc' = [pc EXCEPT ![i] = "RESPOND_ERROR"]
    /\ UNCHANGED raised

\* an exception leaves lambda_handler
Propagate(i, e) ==
    /\ raised' = [raised EXCEPT ![i] = e]
    /\ pc' = [pc EXCEPT ![i] = "RAISED"]
    /\ UNCHANGED <<payload, response>>

\* line 94: body = _parse_event_body(event)
Decode(i, e) ==
    /\ pc[i] = "START"
    /\ event' = [event EXCEPT ![i] = e]
    /\ LET r == ParseEventBody(e)
       IN IF Raised(r)
          THEN Propagate(i, r.raise) /\ UNCHANGED body
          ELSE /\ body' = [body EXCEPT ![i] = r.ret]
               /\ pc' = [pc EXCEPT ![i] = "EXTRACT_TOPIC"]
               /\ UNCHANGED <<payload, response, raised>>
    /\ UNCHANGED <<topic, model_reply, blog_text, now, s3_key, put_result, invoke_calls, put_calls, bucket>>

\* lines 95-98
ExtractTopic(i) ==
    /\ pc[i] = "EXTRACT_TOPIC"
    /\ LET r == TopicOf(body[i])
       IN IF Raised(r)
          THEN Propagate(i, r.raise) /\ UNCHANGED topic
          ELSE /\ topic' = [topic EXCEPT ![i] = r.ret]
               /\ IF r.ret = ""
                  THEN RespondError(i, MissingTopicMessage, 400)
                  ELSE /\ pc' = [pc EXCEPT ![i] = "GENERATE"]
                       /\ UNCHANGED <<payload, response, raised>>
    /\ UNCHANGED <<event, body, model_reply, blog_text, now, s3_key, put_result, invoke_calls, put_calls, bucket>>

\* mutant: a failed generation call is made again
Generate_Retry(i, reply) ==
    /\ pc[i] = "GENERATE"
    /\ invoke_calls' = [invoke_calls EXCEPT ![i] = @ + 1]
    /\ model_reply' = [model_reply EXCEPT ![i] = reply]
    /\ LET r == GenerateBlog(reply)
       IN IF Raised(r)
          THEN UNCHANGED <<pc, payload, response, raised, blog_text>>
          ELSE /\ blog_text' = [blog_text EXCEPT ![i] = r.ret]
               /\ pc' = [pc EXCEPT ![i] = "CHECK_NONEMPTY"]
               /\ UNCHANGED <<payload, response, raised>>
    /\ UNCHANGED <<event, body, topic, now, s3_key, put_result, put_calls, bucket>>

\* lines 100-104
Generate(i, reply) ==
    /\ pc[i] = "GENERATE"
    /\ invoke_calls' = [invoke_calls EXCEPT ![i] = @ + 1]
    /\ model_reply' = [model_reply EXCEPT ![i] = reply]
    /\ LET r == GenerateBlog(reply)
       IN IF Raised(r)
          THEN RespondError(i, GenerationErrorMessage(r.raise), 502) /\ UNCHANGED blog_text
          ELSE /\ blog_text' = [blog_text EXCEPT ![i] = r.ret]
               /\ pc' = [pc EXCEPT ![i] = "CHECK_NONEMPTY"]
               /\ UNCHANGED <<payload, response, raised>>
    /\ UNCHANGED <<event, body, topic, now, s3_key, put_result, put_calls, bucket>>

\* mutant: empty text is stored like any other
CheckNonEmpty_NoCheck(i, reading) ==
    /\ pc[i] = "CHECK_NONEMPTY"
    /\ now' = [now EXCEPT ![i] = reading]
    /\ s3_key' = [s3_key EXCEPT ![i] = S3Key(topic[i], reading)]
    /\ pc' = [pc EXCEPT ![i] = "STORE"]
    /\ UNCHANGED <<payload, response, raised>>
    /\ UNCHANGED <<event, body, topic, model_reply, blog_text, put_result, invoke_calls, put_calls, bucket>>

\* lines 106-112
CheckNonEmpty(i, reading) ==
    /\ pc[i] = "CHECK_NONEMPTY"
    /\ IF blog_text[i] = ""
       THEN RespondError(i, EmptyContentMessage, 502) /\ UNCHANGED <<now, s3_key>>
       ELSE /\ now' = [now EXCEPT ![i] = reading]
            /\ s3_key' = [s3_key EXCEPT ![i] = S3Key(topic[i], reading)]
            /\ pc' = [pc EXCEPT ![i] = "STORE"]
            /\ UNCHANGED <<payload, response, raised>>
    /\ UNCHANGED <<event, body, topic, model_reply, blog_text, put_result, invoke_calls, put_calls, bucket>>

\* mutant: a failed write is ignored
Store_IgnoreFailure(i, outcome) ==
    /\ pc[i] = "STORE"
    /\ put_calls' = [put_calls EXCEPT ![i] = @ + 1]
    /\ put_result' = [put_result EXCEPT ![i] = outcome]
    /\ IF Raised(outcome)
       THEN UNCHANGED bucket
       ELSE bucket' = PutObject(bucket, S3Object(s3_key[i], blog_text[i]))
    /\ Respond(i, SuccessBody(s3_key[i], blog_text[i]), 200)
    /\ UNCHANGED <<event, body, topic, model_reply, blog_text, now, s3_key, invoke_calls>>

\* lines 114-125
Store(i, outcome) ==
    /\ pc[i] = "STORE"
    /\ put_calls' = [put_calls EXCEPT ![i] = @ + 1]
    /\ put_result' = [put_result EXCEPT ![i] = outcome]
    /\ IF Raised(outcome)
       THEN RespondError(i, StorageErrorMessage(outcome.raise), 502) /\ UNCHANGED bucket
       ELSE /\ bucket' = PutObject(bucket, S3Object(s3_key[i], blog_text[i]))
            /\ Respond(i, SuccessBody(s3_key[i], blog_text[i]), 200)
    /\ UNCHANGED <<event, body, topic, model_reply, blog_text, now, s3_key, invoke_calls>>

\* lambda_handler
Handler(i, events, replies, readings, outcomes) ==
    \/ \E e \in events : Decode(i, e)
    \/ ExtractTopic(i)
    \/ \E reply \in replies : Generate(i, reply)
    \/ \E reading \in readings : CheckNonEmpty(i, reading)
    \/ \E outcome \in outcomes : Store(i, outcome)

\* one invocation, every input
Next == Handler(1, Events, Replies, ClockReadings, PutOutcomes)

Spec == Init /\ [][Next]_vars

(***************************************************************************)
(* Concurrent invocations sharing the bucket: topics that sanitize to the  *)
(* same and to different names, clock readings within one second and in    *)
(* the next one.                                                           *)
(***************************************************************************)
TopicEvent(t) ==
    [body |-> BodyStr(JObj([k \in {"blogstopic"} |-> JStr(t)]), B64Error), isBase64Encoded |-> FALSE]

ConcEvents == {TopicEvent(t) : t \in {"Coffee!!", "!!", "blog"}}

ConcReplies == {[data |-> JObj([k \in {"generation"} |-> JStr(t)])] : t \in {CoffeeText, "Tea."}}

ConcReadings ==
    {[sec |-> 1793681880, usec |-> 0], [sec |-> 1793681880, usec |-> 999999],
     [sec |-> 1793681881, usec |-> 0]}

NextConc == \E i \in Invocations : Handler(i, ConcEvents, ConcReplies, ConcReadings, PutOutcomes)

SpecConc == Init /\ [][NextConc]_vars

(***************************************************************************)
(* Claims                                                                  *)
(***************************************************************************)
\* m in s
Contains(s, m) == \E i \in 1..(Len(s) - Len(m) + 1) : SubSeq(s, i, i + Len(m) - 1) = m

\* d[key] for a key the dict holds
DictGet(d, key) == d[CHOOSE i \in 1..Len(d) : d[i][1] = key][2]

DictKeys(d) == [i \in 1..Len(d) |-> d[i][1]]

Terminal(i) == pc[i] \in {"RESPOND_OK", "RESPOND_ERROR"}

\* the message of an error payload
ErrorMessage(i) == DictGet(payload[i], "error").s

IsErrorPayload(i) == DictKeys(payload[i]) = <<"error">>

\* C1: every invocation, whatever its event and whatever the services answer,
\* ends by returning an envelope with a status code, the Content-Type header
\* and a JSON body; no exception leaves lambda_handler.
C1_EveryPathReturnsEnvelope ==
    \A i \in Invocations :
        /\ pc[i] # "RAISED"
        /\ Terminal(i) =>
              /\ response[i].statusCode \in {200, 400, 500, 502}
              /\ [name |-> "Content-Type", value |-> "application/json"] \in response[i].headers
              /\ response[i].body = JsonDumps(payload[i])

\* an event that carries no payload: no body, a null body, or a body that does not parse
C2_NoPayload(e) ==
    \/ e.body \in {Absent, None}
    \/ /\ e.body.k = "str"
       /\ \/ ~e.isBase64Encoded /\ e.body.plain = Malformed
          \/ e.isBase64Encoded /\ e.body.b64 = Malformed

\* C2: an invocation whose extracted topic is empty after trimming (absent, null
\* and unparseable bodies included) answers 400 with the missing-field message
\* and calls neither invoke_model nor put_object.
C2_BlankTopicRejected ==
    \A i \in Invocations :
        /\ (pc[i] \notin {"START", "EXTRACT_TOPIC", "RAISED"} /\ Strip(topic[i]) = "") =>
              /\ pc[i] = "RESPOND_ERROR"
              /\ response[i].statusCode = 400
              /\ response[i].body = "{\"error\": \"Missing required field 'blogstopic' in request body.\"}"
              /\ invoke_calls[i] = 0
              /\ put_calls[i] = 0
        /\ (pc[i] \notin {"START", "EXTRACT_TOPIC"} /\ C2_NoPayload(event[i])) =>
              /\ pc[i] = "RESPOND_ERROR"
              /\ topic[i] = ""

\* a whitespace-only 'blogstopic' was rejected with 400
C2_Witness ==
    \E i \in Invocations :
        /\ pc[i] = "RESPOND_ERROR"
        /\ response[i].statusCode = 400
        /\ body[i] = JObj([k \in {"blogstopic"} |-> JStr("  ")])
        /\ invoke_calls[i] = 0

C3_Rank(p) ==
    CASE p = "START" -> 0
      [] p = "EXTRACT_TOPIC" -> 1
      [] p = "GENERATE" -> 2
      [] p = "CHECK_NONEMPTY" -> 3
      [] p = "STORE" -> 4
      [] OTHER -> 5

C3_Inv ==
    \A i \in Invocations :
        /\ invoke_calls[i] <= 1
        /\ put_calls[i] <= 1
        /\ invoke_calls[i] = 1 => topic[i] # "" /\ Char(topic[i], 1) \notin Whitespace
        /\ put_calls[i] = 1 =>
              /\ invoke_calls[i] = 1
              /\ blog_text[i] # ""
              /\ Char(blog_text[i], 1) \notin Whitespace
              /\ Char(blog_text[i], Len(blog_text[i])) \notin Whitespace
        /\ response[i].statusCode = 200 =>
              /\ pc[i] = "RESPOND_OK"
              /\ put_calls[i] = 1
              /\ put_result[i] = Return("ok")
              /\ \E o \in bucket :
                    /\ o.Key = DictGet(payload[i], "s3_key").s
                    /\ o.Key = s3_key[i]
                    /\ Len(o.Body) = DictGet(payload[i], "length_chars").n

C3_Step ==
    /\ \A i \in Invocations :
          /\ pc'[i] # pc[i] =>
                /\ C3_Rank(pc'[i]) > C3_Rank(pc[i])
                /\ C3_Rank(pc'[i]) = C3_Rank(pc[i]) + 1 \/ C3_Rank(pc'[i]) = 5
          /\ invoke_calls'[i] # invoke_calls[i] => pc[i] = "GENERATE" /\ pc'[i] # "GENERATE"
          /\ put_calls'[i] # put_calls[i] => pc[i] = "STORE" /\ pc'[i] # "STORE"
    /\ bucket' # bucket => \E i \in Invocations : pc[i] = "STORE" /\ pc'[i] = "RESPOND_OK"

\* C3: an invocation moves forward only, one step at a time, through DECODE,
\* EXTRACT_TOPIC, GENERATE, CHECK_NONEMPTY, STORE, RESPOND: at most one
\* generation call, made with a non-blank topic; at most one storage write,
\* made with non-empty trimmed text; a 200 only after that write succeeded,
\* carrying the key and the text length of that write.
C3_LinearPath == []C3_Inv /\ [][C3_Step]_vars

C3_Witness == \E i \in Invocations : pc[i] = "RESPOND_OK" /\ invoke_calls[i] = 1 /\ put_calls[i] = 1

C4_BothPresent(i) ==
    /\ pc[i] \notin {"START", "EXTRACT_TOPIC"}
    /\ body[i] # Unset
    /\ body[i].t = "dict"
    /\ DOMAIN body[i].fields = {"blogstopic", "topic"}

C4_Trimmed(val) == IF val.t = "str" THEN Strip(val.v) ELSE ""

\* C4 as stated: with both fields present the topic is the trimmed 'blogstopic',
\* also when 'blogstopic' is the empty string or null.
C4_BlogstopicAlwaysWins ==
    \A i \in Invocations :
        (C4_BothPresent(i) /\ body[i].fields.blogstopic.t \in {"str", "NoneType"}) =>
            pc[i] # "RAISED" /\ topic[i] = C4_Trimmed(body[i].fields.blogstopic)

\* C4 amended: with both fields present, a non-empty string 'blogstopic' is the
\* topic (trimmed) whatever 'topic' holds; a null, empty or zero 'blogstopic'
\* hands over to 'topic'.
C4_BlogstopicWinsWhenTruthy ==
    \A i \in Invocations :
        C4_BothPresent(i) =>
            LET b == body[i].fields.blogstopic
                t == body[i].fields.topic
            IN /\ (b.t = "str" /\ b.v # "") => pc[i] # "RAISED" /\ topic[i] = Strip(b.v)
               /\ (b \in {JNull, JStr(""), JNum("0")} /\ t.t = "str") =>
                     pc[i] # "RAISED" /\ topic[i] = Strip(t.v)

\* both fields hold different topics and 'blogstopic' was used
C4_Witness ==
    \E i \in Invocations :
        /\ C4_BothPresent(i)
        /\ body[i].fields.blogstopic = JStr(" my-2nd_blog post\n")
        /\ body[i].fields.topic = JStr("Coffee!!")
        /\ topic[i] = "my-2nd_blog post"
        /\ pc[i] = "RESPOND_OK"

C5_Blank(text) == \A k \in 1..Len(text) : Char(text, k) \in {" ", "\t", "\n", "\r", "\f"}

\* the reply carries no text: the field is missing, null, empty or whitespace
C5_EmptyText(r) ==
    /\ "data" \in DOMAIN r
    /\ r.data.t = "dict"
    /\ \/ "generation" \notin DOMAIN r.data.fields
       \/ r.data.fields.generation = JNull
       \/ r.data.fields.generation.t = "str" /\ C5_Blank(r.data.fields.generation.v)

\* the reply carries text
C5_GoodText(r) ==
    /\ "data" \in DOMAIN r
    /\ r.data.t = "dict"
    /\ "generation" \in DOMAIN r.data.fields
    /\ r.data.fields.generation.t = "str"
    /\ ~C5_Blank(r.data.fields.generation.v)

\* C5: a failed generation step ends with 502 and no storage write: an error
\* with message M gives a 502 whose message contains M, a missing, empty or
\* whitespace-only text gives 502 "Model returned empty content.", and
\* put_object is not called.
C5_GenerationFailure ==
    \A i \in Invocations :
        (invoke_calls[i] >= 1 /\ ~C5_GoodText(model_reply[i])) =>
            /\ put_calls[i] = 0
            /\ pc[i] \in {"CHECK_NONEMPTY", "RESPOND_ERROR"}
            /\ pc[i] = "RESPOND_ERROR" => response[i].statusCode = 502 /\ IsErrorPayload(i)
            /\ "raise" \in DOMAIN model_reply[i] =>
                  /\ pc[i] = "RESPOND_ERROR"
                  /\ Contains(ErrorMessage(i), model_reply[i].raise.msg)
                  /\ Contains(response[i].body, model_reply[i].raise.msg)
            /\ (C5_EmptyText(model_reply[i]) /\ pc[i] = "RESPOND_ERROR") =>
                  response[i].body = "{\"error\": \"Model returned empty content.\"}"

\* a whitespace-only text was answered with 502
C5_Witness ==
    \E i \in Invocations :
        /\ pc[i] = "RESPOND_ERROR"
        /\ invoke_calls[i] = 1
        /\ model_reply[i] = [data |-> JObj([k \in {"generation"} |-> JStr(" \n\t")])]
        /\ response[i].statusCode = 502

\* C6: when generation gave text and put_object raises an error with message M,
\* the answer is a 502 whose message contains M; there is one write attempt,
\* one generation call, nothing is stored or undone, and no 200 is returned.
C6_StorageFailure ==
    \A i \in Invocations :
        (put_calls[i] >= 1 /\ "raise" \in DOMAIN put_result[i]) =>
            /\ pc[i] = "RESPOND_ERROR"
            /\ response[i].statusCode = 502
            /\ IsErrorPayload(i)
            /\ Contains(ErrorMessage(i), put_result[i].raise.msg)
            /\ Contains(response[i].body, put_result[i].raise.msg)
            /\ put_calls[i] = 1
            /\ invoke_calls[i] = 1
            /\ blog_text[i] # ""
            /\ bucket = {}

C6_Witness ==
    \E i \in Invocations :
        /\ pc[i] = "RESPOND_ERROR"
        /\ put_calls[i] = 1
        /\ put_result[i] = NoSuchBucket
        /\ blog_text[i] = CoffeeText

C9_Allowed == "ABCDEFGHIJKLMNOPQRSTUVWXYZabcdefghijklmnopqrstuvwxyz0123456789-_"

C9_AllowedChars == {Char(C9_Allowed, k) : k \in 1..Len(C9_Allowed)}

\* name is the topic's alphanumerics, hyphens and underscores in their order, or
\* "blog" when the topic has none
C9_IsSanitized(name, t) ==
    LET kept == {k \in 1..Len(t) : Char(t, k) \in C9_AllowedChars}
    IN IF kept = {} THEN name = "blog"
       ELSE /\ Len(name) = Cardinality(kept)
            /\ \A k \in kept : Char(name, Cardinality({m \in kept : m < k}) + 1) = Char(t, k)

C9_Digit(c) == CHOOSE d \in 0..9 : Char("0123456789", d + 1) = c

C9_Num2(s) == 10 * C9_Digit(Char(s, 1)) + C9_Digit(Char(s, 2))

\* days since 1970-01-01 of a Gregorian date
C9_DaysFromCivil(y, m, d) ==
    LET yy == IF m <= 2 THEN y - 1 ELSE y
        era == yy \div 400
        yoe == yy - era * 400
        doy == (153 * (IF m > 2 THEN m - 3 ELSE m + 9) + 2) \div 5 + d - 1
        doe == yoe * 365 + yoe \div 4 - yoe \div 100 + doy
    IN era * 146097 + doe - 719468

\* stamp reads YYYY-MM-DDTHH-MM-SSZ and names the second sec of UTC
C9_IsTimestamp(stamp, sec) ==
    /\ Len(stamp) = 20
    /\ \A k \in {5, 8, 14, 17} : Char(stamp, k) = "-"
    /\ Char(stamp, 11) = "T"
    /\ Char(stamp, 20) = "Z"
    /\ \A k \in (1..19) \ {5, 8, 11, 14, 17} : Char(stamp, k) \in {"0", "1", "2", "3", "4", "5", "6", "7", "8", "9"}
    /\ LET year == 100 * C9_Num2(SubSeq(stamp, 1, 2)) + C9_Num2(SubSeq(stamp, 3, 4))
           month == C9_Num2(SubSeq(stamp, 6, 7))
           day == C9_Num2(SubSeq(stamp, 9, 10))
           hour == C9_Num2(SubSeq(stamp, 12, 13))
           minute == C9_Num2(SubSeq(stamp, 15, 16))
           second == C9_Num2(SubSeq(stamp, 18, 19))
       IN /\ month \in 1..12 /\ day \in 1..31 /\ hour \in 0..23 /\ minute \in 0..59 /\ second \in 0..59
          /\ C9_DaysFromCivil(year, month, day) * 86400 + hour * 3600 + minute * 60 + second = sec

\* the parts of a key blogs/<name>_<stamp>.txt
C9_Name(key) == SubSeq(key, 7, Len(key) - 25)

C9_Stamp(key) == SubSeq(key, Len(key) - 23, Len(key) - 4)

C9_WellFormed(key) ==
    /\ Len(key) >= 32
    /\ SubSeq(key, 1, 6) = "blogs/"
    /\ Char(key, Len(key) - 24) = "_"
    /\ SubSeq(key, Len(key) - 3, Len(key)) = ".txt"

C7_ReachedWrite(i) == put_calls[i] >= 1

\* C7 as stated: two invocations that reach the storage write never write the same key.
C7_KeysAlwaysDiffer ==
    \A i, j \in Invocations :
        (i # j /\ C7_ReachedWrite(i) /\ C7_ReachedWrite(j)) => s3_key[i] # s3_key[j]

C7_SameName(i, j) ==
    \E name \in {C9_Name(s3_key[i]), C9_Name(s3_key[j])} :
        C9_IsSanitized(name, topic[i]) /\ C9_IsSanitized(name, topic[j])

\* C7 amended: two invocations that reach the storage write write the same key
\* exactly when their topics sanitize to the same name and their clock readings
\* fall in the same second; the bucket then keeps one object under that key.
C7_KeysDifferUnlessSameNameAndSecond ==
    /\ \A i, j \in Invocations :
          (i # j /\ C7_ReachedWrite(i) /\ C7_ReachedWrite(j)) =>
              (s3_key[i] = s3_key[j] <=> (C7_SameName(i, j) /\ now[i].sec = now[j].sec))
    /\ \A o1, o2 \in bucket : o1.Key = o2.Key => o1 = o2
    /\ \A i \in Invocations : pc[i] = "RESPOND_OK" => \E o \in bucket : o.Key = s3_key[i]

\* topics "!!" and "blog", read within one second, were both stored under one key
C7_Witness ==
    \E i, j \in Invocations :
        /\ pc[i] = "RESPOND_OK" /\ pc[j] = "RESPOND_OK"
        /\ topic[i] = "!!" /\ topic[j] = "blog"
        /\ now[i].usec # now[j].usec
        /\ blog_text[i] # blog_text[j]
        /\ s3_key[i] = s3_key[j]
        /\ Cardinality(bucket) = 1

\* text is raw without its leading and trailing whitespace
C8_IsTrimOf(text, raw) ==
    /\ text # ""
    /\ Char(text, 1) \notin {" ", "\t", "\n", "\r", "\f"}
    /\ Char(text, Len(text)) \notin {" ", "\t", "\n", "\r", "\f"}
    /\ \E a \in 0..(Len(raw) - Len(text)) :
          /\ SubSeq(raw, a + 1, a + Len(text)) = text
          /\ C5_Blank(SubSeq(raw, 1, a))
          /\ C5_Blank(SubSeq(raw, a + Len(text) + 1, Len(raw)))

\* C8: a successful invocation with trimmed text of length L answers the whole
\* text as preview when L <= 200, the first 200 characters followed by "..."
\* when L > 200, and L as length_chars.
C8_PreviewAndLength ==
    \A i \in Invocations :
        pc[i] = "RESPOND_OK" =>
            LET text == blog_text[i]
                preview == DictGet(payload[i], "preview").s
            IN /\ C8_IsTrimOf(text, model_reply[i].data.fields.generation.v)
               /\ DictGet(payload[i], "length_chars").n = Len(text)
               /\ Len(text) <= 200 => preview = text
               /\ Len(text) > 200 => preview = SubSeq(text, 1, 200) \o "..." /\ Len(preview) = 203

\* a text of 201 characters was cut to 200 and "..."
C8_Witness ==
    \E i \in Invocations :
        /\ pc[i] = "RESPOND_OK"
        /\ Len(blog_text[i]) = 201
        /\ Len(DictGet(payload[i], "preview").s) = 203
        /\ Contains(response[i].body, "\"length_chars\": 201, \"preview\": \"0123456789")
        /\ Contains(response[i].body, "0123456789...\"}")

\* C9: the key is blogs/<name>_<stamp>.txt, <name> the topic's alphanumerics,
\* hyphens and underscores in order and in full, or "blog" when it has none,
\* <stamp> the UTC clock reading as YYYY-MM-DDTHH-MM-SSZ; a successful write
\* stored the text under that key.
C9_KeyFormat ==
    \A i \in Invocations :
        (pc[i] = "STORE" \/ put_calls[i] >= 1) =>
            /\ C9_WellFormed(s3_key[i])
            /\ C9_IsSanitized(C9_Name(s3_key[i]), topic[i])
            /\ C9_IsTimestamp(C9_Stamp(s3_key[i]), now[i].sec)
            /\ pc[i] = "RESPOND_OK" => \E o \in bucket : o.Key = s3_key[i] /\ o.Body = blog_text[i]

\* the topic "!!" was stored under the fallback name
C9_Witness ==
    \E i \in Invocations :
        /\ pc[i] = "RESPOND_OK"
        /\ topic[i] = "!!"
        /\ now[i].sec = 1798761599
        /\ s3_key[i] = "blogs/blog_2026-12-31T23-59-59Z.txt"

\* the end-to-end case: {"blogstopic": "Coffee!!"}, the text below, a write that succeeds
C10_Case(i) ==
    /\ put_calls[i] >= 1
    /\ put_result[i] = Return("ok")
    /\ ~event[i].isBase64Encoded
    /\ event[i].body.k = "str"
    /\ event[i].body.plain = JObj([k \in {"blogstopic"} |-> JStr("Coffee!!")])
    /\ model_reply[i] = [data |-> JObj([k \in {"generation"} |-> JStr("A short text about coffee.")])]

C10_Response(i, length) ==
    /\ pc[i] = "RESPOND_OK"
    /\ response[i].statusCode = 200
    /\ Len(s3_key[i]) = 37
    /\ SubSeq(s3_key[i], 1, 13) = "blogs/Coffee_"
    /\ C9_IsTimestamp(SubSeq(s3_key[i], 14, 33), now[i].sec)
    /\ SubSeq(s3_key[i], 34, 37) = ".txt"
    /\ DictGet(payload[i], "s3_key").s = s3_key[i]
    /\ DictGet(payload[i], "length_chars").n = length
    /\ DictGet(payload[i], "preview").s = "A short text about coffee."

\* C10 as stated: the end-to-end case answers 200 with key
\* blogs/Coffee_<timestamp>.txt, length_chars 27 and the whole text as preview.
C10_EndToEnd27 == \A i \in Invocations : C10_Case(i) => C10_Response(i, 27)

\* C10 amended: as stated, with length_chars 26, the length of the text.
C10_EndToEnd26 == \A i \in Invocations : C10_Case(i) => C10_Response(i, 26)

C10_Witness ==
    \E i \in Invocations :
        /\ C10_Case(i)
        /\ now[i].sec = 1793681880
        /\ response[i].body = "{\"message\": \"Blog generated and saved.\", \"s3_bucket\": \"bedrock-demo-blogs\", \"s3_key\": \"blogs/Coffee_2026-11-03T04-58-00Z.txt\", \"length_chars\": 26, \"preview\": \"A short text about coffee.\"}"

====
